---- MODULE Spec2Model ----
(***************************************************************************)
(* Model of ostool: the command line entry point (src/main.rs), the        *)
(* project context and architecture resolution (src/project.rs) and the    *)
(* CargoTestPrepare step (src/step/prepare_test.rs).                       *)
(*                                                                         *)
(* The file system outlives a process, so the model runs several process   *)
(* invocations one after the other against the same files.                 *)
(***************************************************************************)
EXTENDS Integers, Sequences, FiniteSets, TLC

\* Option
None == [kind |-> "None"]
Some(v) == [kind |-> "Some", value |-> v]

(***************************************************************************)
(* Strings that are searched are sequences of characters.                  *)
(***************************************************************************)
S_aarch64 == <<"a", "a", "r", "c", "h", "6", "4">>
S_riscv64 == <<"r", "i", "s", "c", "v", "6", "4">>
S_x86_64 == <<"x", "8", "6", "_", "6", "4">>
S_x86 == <<"x", "8", "6">>
S__64 == <<"_", "6", "4">>
S_arm == <<"a", "r", "m">>
S_dash == <<"-">>
S_none == <<"n", "o", "n", "e">>

\* the pieces target triples are built from
TargetParts ==
    {S_aarch64, S_riscv64, S_x86_64, S_x86, S__64, S_arm, S_dash, S_none}

\* number of pieces in a target triple
MaxParts == 2

RECURSIVE Concats(_)
Concats(n) ==
    IF n = 0 THEN {<<>>}
    ELSE LET shorter == Concats(n - 1)
         IN  shorter \cup {s \o p : s \in shorter, p \in TargetParts}

Targets == Concats(MaxParts)

\* str::starts_with on the suffix of s that begins at position i
RECURSIVE MatchAt(_, _, _, _)
MatchAt(s, pat, i, j) ==
    IF j > Len(pat) THEN TRUE
    ELSE IF i + j - 1 > Len(s) THEN FALSE
    ELSE IF s[i + j - 1] # pat[j] THEN FALSE
    ELSE MatchAt(s, pat, i, j + 1)

\* str::contains: scan the start positions from the left
RECURSIVE ContainsFrom(_, _, _)
ContainsFrom(s, pat, i) ==
    IF i + Len(pat) - 1 > Len(s) THEN FALSE
    ELSE IF MatchAt(s, pat, i, 1) THEN TRUE
    ELSE ContainsFrom(s, pat, i + 1)

Contains(s, pat) == ContainsFrom(s, pat, 1)

(***************************************************************************)
(* Arch (project.rs) and the results of resolving one.                     *)
(***************************************************************************)
Arch == {"Aarch64", "Riscv64", "X86_64"}

Ok(v) == [kind |-> "Ok", value |-> v]
Err(k, v) == [kind |-> "Err", error |-> k, value |-> v]
Panic(m) == [kind |-> "Panic", message |-> m]

\* Arch::from_target with the first two tests swapped
from_target_riscv_first(target) ==
    IF Contains(target, S_riscv64) THEN Ok("Riscv64")
    ELSE IF Contains(target, S_aarch64) THEN Ok("Aarch64")
    ELSE IF Contains(target, S_x86_64) THEN Ok("X86_64")
    ELSE Err("Unsupportedtarget", target)

\* Arch::from_target
from_target(target) ==
    IF Contains(target, S_aarch64) THEN Ok("Aarch64")
    ELSE IF Contains(target, S_riscv64) THEN Ok("Riscv64")
    ELSE IF Contains(target, S_x86_64) THEN Ok("X86_64")
    ELSE Err("Unsupportedtarget", target)

\* Arch::qemu_arch with the x86_64 arm spelt with a dash
qemu_arch_dash(arch) ==
    LET a == CASE arch = "Aarch64" -> "aarch64"
               [] arch = "Riscv64" -> "riscv64"
               [] arch = "X86_64" -> "x86-64"
    IN  "qemu-system-" \o a

\* Arch::qemu_arch
qemu_arch(arch) ==
    LET a == CASE arch = "Aarch64" -> "aarch64"
               [] arch = "Riscv64" -> "riscv64"
               [] arch = "X86_64" -> "x86_64"
    IN  "qemu-system-" \o a

\* the architecture tags of a parsed executable header (object::Architecture)
Architecture == {"Aarch64", "Riscv64", "X86_64", "Arm", "Unknown"}

\* impl From<Architecture> for Arch
arch_from(value) ==
    CASE value = "Aarch64" -> Ok("Aarch64")
      [] value = "X86_64" -> Ok("X86_64")
      [] value = "Riscv64" -> Ok("Riscv64")
      [] OTHER -> Panic("not support")

(***************************************************************************)
(* Files.  A TOML file is absent, holds bytes that do not parse, or holds  *)
(* a document: a function from the keys it has to their values.            *)
(* Serialising leaves out the fields that are None; parsing gives None to  *)
(* an optional field whose key is missing and fails when a required key is *)
(* missing.                                                                *)
(***************************************************************************)
Absent == [kind |-> "absent"]
Corrupt == [kind |-> "corrupt"]
Doc(d) == [kind |-> "doc", doc |-> d]

EmptyDoc == [k \in {} |-> None]

HasKey(doc, k) == k \in DOMAIN doc

\* fs::exists, Path::exists
Exists(file) == file.kind # "absent"

\* toml::to_string(&ProjectConfig)
config_to_string(config) ==
    [k \in {"compile.target"} \cup
           (IF config.machine.kind = "Some" THEN {"qemu.machine"} ELSE {}) |->
        IF k = "compile.target" THEN config.target ELSE config.machine.value]

\* toml::from_str::<ProjectConfig>
config_from_str(file) ==
    IF file.kind # "doc" THEN Panic("toml parse")
    ELSE IF ~HasKey(file.doc, "compile.target") THEN Panic("toml missing field")
    ELSE Ok([target |-> file.doc["compile.target"],
             machine |-> IF HasKey(file.doc, "qemu.machine")
                         THEN Some(file.doc["qemu.machine"]) ELSE None])

\* what File::create followed by a write_all that fails leaves in the file:
\* a prefix of the document
config_prefixes(doc) ==
    {EmptyDoc} \cup
    (IF HasKey(doc, "qemu.machine")
     THEN {[k \in {"compile.target"} |-> doc[k]]} ELSE {})

(***************************************************************************)
(* The command line (main.rs) and the configurations new_config can give.  *)
(***************************************************************************)
ConfigPaths == {".project.toml", "custom.toml"}

Commands == {"Build", "Qemu", "Uboot"}

ConfigTargets == {S_aarch64 \o S_dash, S_riscv64 \o S_aarch64, S_x86_64, S_arm}

\* os::new_config
NewConfigs == [target : ConfigTargets, machine : {None, Some("virt")}]

\* number of process invocations
MaxRuns == 2

VARIABLES
    run,        \* number of the current process invocation
    entry,      \* "main": the ostool binary; "test": the test-harness entry point
    pc,         \* position of the process
    exit,       \* exit code of the process, -1 while it runs
    cmd,        \* the parsed command line of this invocation
    executed,   \* the steps this invocation has started, in order
    project,    \* the Project of this invocation
    baseFiles,  \* the base configuration files, by path
    userFile,   \* .bare-test.toml
    dirFiles,   \* the files of the directories artifacts are written to
    tp,         \* the locals of CargoTestPrepare::run
    obs,        \* what this invocation did and met
    hist        \* what earlier invocations left behind

vars == <<run, entry, pc, exit, cmd, executed, project, baseFiles, userFile,
          dirFiles, tp, obs, hist>>

Running == -1

\* a process ends by panicking: exit code 101
PanicExit ==
    /\ pc' = "exited"
    /\ exit' = 101

\* main returns an Err: exit code 1
ErrExit ==
    /\ pc' = "exited"
    /\ exit' = 1

NoProject == [config |-> None, arch |-> None, out_dir |-> None,
              binaries |-> None]

NoObs == [existedBase |-> FALSE, wroteBase |-> FALSE, synthesized |-> None,
          loaded |-> None,
          stepFailed |-> 0, failed |-> {}, tag |-> None, archRes |-> None, testFile |-> None, manifest |-> None,
          key |-> None, userExisted |-> FALSE, prompted |-> None,
          wroteUser |-> FALSE, removed |-> {}, returned |-> None]

NoHist == [persisted |-> [p \in ConfigPaths |-> None],
           selected |-> None,
           prev |-> None]

NoTp == [config |-> None, bin_path |-> None, elf_path |-> None]

\* the test of Project::new turned into "always synthesize"
config_missing_always(file) == TRUE

\* Project::new: `!fs::exists(&config_path)?`
config_missing(file) == ~Exists(file)

\* Project::new: config.map(PathBuf::from).unwrap_or(workdir.join(".project.toml"))
config_path_of(config) ==
    IF config.kind = "Some" THEN config.value ELSE ".project.toml"

(***************************************************************************)
(* Project::new.  The environment decides which call into the file system  *)
(* fails, if any: io names the first call that fails.                      *)
(***************************************************************************)
ProjectNew ==
    /\ pc = "new"
    /\ LET config_path == config_path_of(cmd.config)
           file == baseFiles[config_path]
           seen == [obs EXCEPT !.existedBase = Exists(file)]
       IN
       \/ \* fs::exists fails and `?` returns the error from main
          /\ ErrExit
          /\ obs' = seen
          /\ UNCHANGED <<project, baseFiles, hist>>
       \/ /\ config_missing(file)
          /\ \E synth \in NewConfigs :
             LET config_str == config_to_string(synth)
                 res == from_target(synth.target)
                 made == [seen EXCEPT !.synthesized = Some(synth)]
             IN
             \/ \* File::create fails
                /\ PanicExit
                /\ obs' = made
                /\ UNCHANGED <<project, baseFiles, hist>>
             \/ \* write_all fails
                /\ PanicExit
                /\ \E left \in config_prefixes(config_str) :
                      baseFiles' = [baseFiles EXCEPT ![config_path] = Doc(left)]
                /\ hist' = [hist EXCEPT !.persisted[config_path] = None]
                /\ obs' = [made EXCEPT !.wroteBase = TRUE]
                /\ UNCHANGED project
             \/ /\ baseFiles' = [baseFiles EXCEPT ![config_path] = Doc(config_str)]
                /\ hist' = [hist EXCEPT !.persisted[config_path] = Some(synth)]
                /\ obs' = [made EXCEPT !.wroteBase = TRUE, !.loaded = Some(synth)]
                /\ IF res.kind = "Ok"
                   THEN /\ project' = [project EXCEPT !.config = Some(synth),
                                                      !.arch = Some(res.value)]
                        /\ pc' = "match"
                        /\ exit' = exit
                   ELSE /\ PanicExit
                        /\ UNCHANGED project
       \/ /\ ~config_missing(file)
          /\ UNCHANGED <<baseFiles, hist>>
          /\ \/ \* fs::read_to_string fails
                /\ PanicExit
                /\ obs' = seen
                /\ UNCHANGED project
             \/ LET parsed == config_from_str(file)
                IN
                IF parsed.kind # "Ok"
                THEN /\ PanicExit
                     /\ obs' = seen
                     /\ UNCHANGED project
                ELSE LET res == from_target(parsed.value.target)
                     IN
                     /\ obs' = [seen EXCEPT !.loaded = Some(parsed.value)]
                     /\ IF res.kind = "Ok"
                        THEN /\ project' = [project EXCEPT
                                               !.config = Some(parsed.value),
                                               !.arch = Some(res.value)]
                             /\ pc' = "match"
                             /\ exit' = exit
                        ELSE /\ PanicExit
                             /\ UNCHANGED project
    /\ UNCHANGED <<run, entry, cmd, executed, userFile, dirFiles, tp>>

(***************************************************************************)
(* main: the match on the subcommand, and the return.                      *)
(***************************************************************************)
\* Compile::run: a build that fails panics, as every failure of this program does
compile_run(ok) == IF ok THEN Ok("built") ELSE Panic("cargo build")

Step(name, debug) == [step |-> name, debug |-> debug]

\* SubCommands::Build => Compile::run(&mut project, false)
MainBuild ==
    /\ pc = "match"
    /\ cmd.name = "Build"
    /\ executed' = Append(executed, Step("Compile", FALSE))
    /\ \E ok \in BOOLEAN :
          IF compile_run(ok).kind = "Ok"
          THEN pc' = "return" /\ exit' = exit /\ obs' = obs
          ELSE PanicExit /\ obs' = [obs EXCEPT !.stepFailed = Len(executed')]
    /\ UNCHANGED <<run, entry, cmd, project, baseFiles, userFile, dirFiles, tp, hist>>

\* SubCommands::Qemu(args) => Compile::run(&mut project, args.debug)
MainQemu ==
    /\ pc = "match"
    /\ cmd.name = "Qemu"
    /\ executed' = Append(executed, Step("Compile", cmd.debug))
    /\ \E ok \in BOOLEAN :
          IF compile_run(ok).kind = "Ok"
          THEN pc' = "return" /\ exit' = exit /\ obs' = obs
          ELSE PanicExit /\ obs' = [obs EXCEPT !.stepFailed = Len(executed')]
    /\ UNCHANGED <<run, entry, cmd, project, baseFiles, userFile, dirFiles, tp, hist>>

\* SubCommands::Uboot => {}
MainUboot ==
    /\ pc = "match"
    /\ cmd.name = "Uboot"
    /\ pc' = "return"
    /\ UNCHANGED <<run, entry, exit, cmd, executed, project, baseFiles, userFile,
                   dirFiles, tp, obs, hist>>

\* Ok(())
MainReturn ==
    /\ pc = "return"
    /\ entry = "main"
    /\ pc' = "exited"
    /\ exit' = 0
    /\ UNCHANGED <<run, entry, cmd, executed, project, baseFiles, userFile,
                   dirFiles, tp, obs, hist>>

(***************************************************************************)
(* CargoTestPrepare (prepare_test.rs).  A path is a directory, a file stem *)
(* and an extension.                                                       *)
(***************************************************************************)
PathOf(dir, stem, ext) == [dir |-> dir, stem |-> stem, ext |-> ext]

\* the compiled test images the test runner hands over
Images == {PathOf("deps", "t1", ""), PathOf("deps", "test", "elf")}

\* Path::parent
parent(path) == Some(path.dir)

\* Path::file_stem
file_stem(path) == path.stem

\* Project::out_dir
out_dir(p) == p.out_dir.value

\* the qemu sections configuration files hold: machine, extra arguments
QNone == [machine |-> Some("none"), args |-> Some("-smp 2")]
Q35 == [machine |-> Some("q35"), args |-> None]
QArgs == [machine |-> None, args |-> Some("-nographic")]

\* Qemu::new_default
qemu_new_default(arch) ==
    [machine |-> Some("virt"),
     args |-> Some(CASE arch = "Aarch64" -> "-cpu cortex-a53"
                     [] arch = "Riscv64" -> "-cpu rv64"
                     [] arch = "X86_64" -> "-cpu qemu64")]

\* ProjectConfig::new
project_config_new(arch) == [qemu |-> qemu_new_default(arch), uboot |-> None]

\* what bare-test.toml can hold: struct Config { qemu: Option<Qemu> }
TestFiles == {Absent, Corrupt, Doc([qemu |-> None]), Doc([qemu |-> Some(QNone)])}

\* what Cargo.toml can hold: struct CargoToml { test_qemu: Option<BTreeMap<String, Qemu>> }
Manifests ==
    {Absent, Corrupt,
     Doc([test_qemu |-> None]),
     Doc([test_qemu |-> Some([k \in {"qemu-system-aarch64"} |-> Q35])]),
     Doc([test_qemu |-> Some([k \in {"qemu-system-riscv64", "qemu-system-x86_64"} |->
                                 IF k = "qemu-system-riscv64" THEN Q35 ELSE QArgs])])}

\* UbootConfig::config_by_select: what the user can select
UbootSelections == {[serial |-> "ttyUSB0", dtb |-> None],
                    [serial |-> "ttyUSB1", dtb |-> Some("board.dtb")]}

\* toml::to_string(&UbootConfig)
uboot_to_string(u) ==
    [k \in {"serial"} \cup (IF u.dtb.kind = "Some" THEN {"dtb"} ELSE {}) |->
        IF k = "serial" THEN u.serial ELSE u.dtb.value]

\* toml::from_str::<UbootConfig>
uboot_from_str(file) ==
    IF file.kind # "doc" THEN Panic("toml parse")
    ELSE IF ~HasKey(file.doc, "serial") THEN Panic("toml missing field")
    ELSE Ok([serial |-> file.doc["serial"],
             dtb |-> IF HasKey(file.doc, "dtb") THEN Some(file.doc["dtb"]) ELSE None])

\* the step fails at sub-step `what`: every failure it notices is a panic
TPPanic(seen, what) ==
    /\ PanicExit
    /\ obs' = [seen EXCEPT !.failed = @ \cup {what}, !.stepFailed = 1]

\* lines 51-66: read and parse the image, resolve the architecture, derive the paths
TPRead ==
    /\ pc = "tp_read"
    /\ executed' = Append(executed, Step("CargoTestPrepare", FALSE))
    /\ \/ \* fs::read(&self.elf).unwrap()
          /\ TPPanic(obs, "read")
          /\ UNCHANGED <<project, tp>>
       \/ \* object::File::parse(&*binary_data).unwrap()
          /\ cmd.elf \in dirFiles
          /\ TPPanic(obs, "parse")
          /\ UNCHANGED <<project, tp>>
       \/ /\ cmd.elf \in dirFiles
          /\ \E tag \in Architecture :
             LET res == arch_from(tag)
                 seen == [obs EXCEPT !.tag = Some(tag), !.archRes = Some(res)]
             IN
             IF res.kind # "Ok"
             THEN /\ TPPanic(seen, "arch")
                  /\ UNCHANGED <<project, tp>>
             ELSE LET p1 == [project EXCEPT !.arch = Some(res.value),
                                            !.out_dir = parent(cmd.elf)]
                      test_name == file_stem(cmd.elf)
                      config == [project_config_new(p1.arch.value) EXCEPT
                                    !.qemu.machine = Some("virt")]
                  IN
                  /\ project' = p1
                  /\ tp' = [config |-> Some(config),
                            bin_path |-> Some(PathOf(out_dir(p1), test_name, "bin")),
                            elf_path |-> Some(PathOf(out_dir(p1), "test", "elf"))]
                  /\ obs' = seen
                  /\ pc' = "tp_copy"
                  /\ exit' = exit
    /\ UNCHANGED <<run, entry, cmd, baseFiles, userFile, dirFiles, hist>>

\* `let _ = fs::copy(&self.elf, &elf_path);`
copy_result(ok) == "continue"

\* lines 68-69: remove the old copy of the image and copy the image
TPCopy ==
    /\ pc = "tp_copy"
    /\ LET elf_path == tp.elf_path.value
           cleaned == dirFiles \ {elf_path}
       IN
       \E ok \in BOOLEAN :
          /\ ok => cmd.elf \in cleaned
          /\ dirFiles' = IF ok THEN cleaned \cup {elf_path} ELSE cleaned
          /\ IF copy_result(ok) = "continue"
             THEN /\ pc' = "tp_strip"
                  /\ exit' = exit
                  /\ obs' = [obs EXCEPT
                                !.failed = IF ok THEN @ ELSE @ \cup {"copy"},
                                !.removed = @ \cup (dirFiles \cap {elf_path})]
             ELSE /\ PanicExit
                  /\ obs' = [obs EXCEPT
                                !.failed = @ \cup {"copy"},
                                !.stepFailed = 1,
                                !.removed = @ \cup (dirFiles \cap {elf_path})]
    /\ UNCHANGED <<run, entry, cmd, executed, project, baseFiles, userFile, tp, hist>>

\* the strip/convert tool whose failure is dropped
strip_ignored(ok) == "continue"

\* project.shell("rust-objcopy")...exec(project.is_print_cmd).unwrap()
strip_result(ok) == IF ok THEN "continue" ELSE "panic"

\* lines 71-78: remove the old raw binary and run the strip/convert tool
TPStrip ==
    /\ pc = "tp_strip"
    /\ LET bin_path == tp.bin_path.value
           cleaned == dirFiles \ {bin_path}
       IN
       \E ok \in BOOLEAN :
          /\ ok => cmd.elf \in cleaned
          /\ dirFiles' = IF ok THEN cleaned \cup {bin_path} ELSE cleaned
          /\ IF strip_result(ok) = "continue"
             THEN /\ pc' = "tp_testcfg"
                  /\ exit' = exit
                  /\ obs' = [obs EXCEPT
                                !.failed = IF ok THEN @ ELSE @ \cup {"strip"},
                                !.removed = @ \cup (dirFiles \cap {bin_path})]
             ELSE /\ PanicExit
                  /\ obs' = [obs EXCEPT
                                !.failed = @ \cup {"strip"},
                                !.stepFailed = 1,
                                !.removed = @ \cup (dirFiles \cap {bin_path})]
    /\ UNCHANGED <<run, entry, cmd, executed, project, baseFiles, userFile, tp, hist>>

\* lines 87-89: `if let Some(q) = test_config.qemu.clone() { config.qemu = q; }`
test_scope_qemu(cur, test_config) ==
    IF test_config.qemu.kind = "Some" THEN test_config.qemu.value ELSE cur

\* lines 80-90: the default qemu section, then the test-scope file
TPTestConfig ==
    /\ pc = "tp_testcfg"
    /\ \E file \in TestFiles :
       LET config == [tp.config.value EXCEPT
                         !.qemu = qemu_new_default(project.arch.value)]
           seen == [obs EXCEPT !.testFile = Some(file)]
       IN
       IF ~Exists(file)
       THEN /\ tp' = [tp EXCEPT !.config = Some(config)]
            /\ obs' = seen
            /\ pc' = "tp_uboot"
            /\ exit' = exit
       ELSE \/ \* fs::read_to_string(&config_path).unwrap()
               /\ TPPanic(seen, "test_config")
               /\ UNCHANGED tp
            \/ IF file.kind # "doc"
               THEN \* toml::from_str(..).unwrap()
                    /\ TPPanic(seen, "test_config")
                    /\ UNCHANGED tp
               ELSE /\ tp' = [tp EXCEPT !.config =
                                 Some([config EXCEPT
                                          !.qemu = test_scope_qemu(config.qemu, file.doc)])]
                    /\ obs' = seen
                    /\ pc' = "tp_uboot"
                    /\ exit' = exit
    /\ UNCHANGED <<run, entry, cmd, executed, project, baseFiles, userFile,
                   dirFiles, hist>>

\* the test of the user-scope file turned into "always prompt"
user_config_missing_always(file) == TRUE

\* line 96: `!config_user.exists()`
user_config_missing(file) == ~Exists(file)

\* lines 92-104: the user-scope bootloader configuration
TPUboot ==
    /\ pc = "tp_uboot"
    /\ LET seen == [obs EXCEPT !.userExisted = Exists(userFile)]
       IN
       IF ~cmd.uboot
       THEN /\ obs' = seen
            /\ pc' = "tp_manifest"
            /\ exit' = exit
            /\ UNCHANGED <<tp, userFile, hist>>
       ELSE IF user_config_missing(userFile)
       THEN \E uboot_config \in UbootSelections :
            LET s == uboot_to_string(uboot_config)
                asked == [seen EXCEPT !.prompted = Some(uboot_config)]
            IN
            \/ \* fs::write(&config_user, s).unwrap() fails
               /\ TPPanic(asked, "persist")
               /\ \E left \in {userFile, Corrupt} : userFile' = left
               /\ hist' = [hist EXCEPT !.selected = None]
               /\ UNCHANGED tp
            \/ /\ userFile' = Doc(s)
               /\ hist' = [hist EXCEPT !.selected = Some(uboot_config)]
               /\ obs' = [asked EXCEPT !.wroteUser = TRUE]
               /\ tp' = [tp EXCEPT !.config.value.uboot = Some(uboot_config)]
               /\ pc' = "tp_manifest"
               /\ exit' = exit
       ELSE /\ UNCHANGED <<userFile, hist>>
            /\ \/ \* fs::read_to_string(&config_user).unwrap()
                  /\ TPPanic(seen, "user_config")
                  /\ UNCHANGED tp
               \/ LET parsed == uboot_from_str(userFile)
                  IN
                  IF parsed.kind # "Ok"
                  THEN /\ TPPanic(seen, "user_config")
                       /\ UNCHANGED tp
                  ELSE /\ tp' = [tp EXCEPT !.config.value.uboot = Some(parsed.value)]
                       /\ obs' = seen
                       /\ pc' = "tp_manifest"
                       /\ exit' = exit
    /\ UNCHANGED <<run, entry, cmd, executed, project, baseFiles, dirFiles>>

\* the manifest entry merged field by field into the current section
manifest_qemu_merge(cur, cargo_toml, k) ==
    IF /\ cargo_toml.test_qemu.kind = "Some"
       /\ k \in DOMAIN cargo_toml.test_qemu.value
    THEN [f \in DOMAIN cur |->
             IF cargo_toml.test_qemu.value[k][f].kind = "Some"
             THEN cargo_toml.test_qemu.value[k][f] ELSE cur[f]]
    ELSE cur

\* lines 110-115: the entry of the per-architecture table, if there is one
manifest_qemu(cur, cargo_toml, k) ==
    IF /\ cargo_toml.test_qemu.kind = "Some"
       /\ k \in DOMAIN cargo_toml.test_qemu.value
    THEN cargo_toml.test_qemu.value[k]
    ELSE cur

\* lines 106-119: the manifest, then the commit into the Project
TPManifest ==
    /\ pc = "tp_manifest"
    /\ \E file \in Manifests :
       LET seen == [obs EXCEPT !.manifest = Some(file)]
       IN
       IF file.kind # "doc"
       THEN \* fs::read_to_string(cargo_toml).unwrap(), toml::from_str(..).unwrap()
            /\ TPPanic(seen, "manifest")
            /\ UNCHANGED project
       ELSE LET k == qemu_arch(project.arch.value)
                looked == file.doc.test_qemu.kind = "Some"
                config == [tp.config.value EXCEPT
                              !.qemu = manifest_qemu(@, file.doc, k)]
            IN
            /\ project' = [project EXCEPT
                              !.config = Some(config),
                              !.binaries = Some(<<tp.elf_path.value, tp.bin_path.value>>)]
            /\ obs' = [seen EXCEPT !.key = IF looked THEN Some(k) ELSE None,
                                   !.returned = Some("Ok")]
            /\ pc' = "launch"
            /\ exit' = exit
    /\ UNCHANGED <<run, entry, cmd, executed, baseFiles, userFile, dirFiles, tp, hist>>

(***************************************************************************)
(* The test-harness entry point runs [CargoTestPrepare, EmulatorLaunch].   *)
(***************************************************************************)
\* EmulatorLaunch: the exit status of the emulator is the result of the step
emulator_launch(ok) == IF ok THEN Ok("ran") ELSE Err("ExternalToolFailure", "qemu")

EmulatorLaunch ==
    /\ pc = "launch"
    /\ executed' = Append(executed, Step("EmulatorLaunch", FALSE))
    /\ pc' = "exited"
    /\ \E ok \in BOOLEAN :
          IF emulator_launch(ok).kind = "Ok"
          THEN exit' = 0 /\ obs' = obs
          ELSE exit' = 1 /\ obs' = [obs EXCEPT !.stepFailed = Len(executed')]
    /\ UNCHANGED <<run, entry, cmd, project, baseFiles, userFile, dirFiles, tp, hist>>

(***************************************************************************)
(* Process invocations.                                                    *)
(***************************************************************************)
MainCmds ==
    {[name |-> n, debug |-> d, config |-> c, elf |-> None, uboot |-> FALSE] :
        n \in Commands, d \in BOOLEAN, c \in {None, Some("custom.toml")}}

TestCmds ==
    {[name |-> "Test", debug |-> FALSE, config |-> None, elf |-> e, uboot |-> u] :
        e \in Images, u \in BOOLEAN}

\* files the user wrote before the first invocation
HandWrittenBase == Doc(config_to_string([target |-> S_x86_64, machine |-> Some("q35")]))

HandWrittenUser == Doc(uboot_to_string([serial |-> "ttyS0", dtb |-> None]))

\* --debug belongs to the qemu subcommand
ValidCmd(c) == c.debug => c.name = "Qemu"

Init ==
    /\ run = 1
    /\ \E c \in MainCmds \cup TestCmds :
          /\ ValidCmd(c)
          /\ cmd = c
          /\ entry = IF c.name = "Test" THEN "test" ELSE "main"
          /\ pc = IF c.name = "Test" THEN "tp_read" ELSE "new"
    /\ exit = Running
    /\ executed = <<>>
    /\ project = NoProject
    /\ baseFiles \in [ConfigPaths -> {Absent, Corrupt, HandWrittenBase}]
    /\ userFile \in {Absent, Corrupt, HandWrittenUser}
    /\ dirFiles = Images
    /\ tp = NoTp
    /\ obs = NoObs
    /\ hist = NoHist

\* the next process starts
NewRun ==
    /\ pc = "exited"
    /\ run < MaxRuns
    /\ run' = run + 1
    /\ \E c \in MainCmds \cup TestCmds :
          /\ ValidCmd(c)
          /\ cmd' = c
          /\ entry' = IF c.name = "Test" THEN "test" ELSE "main"
          /\ pc' = IF c.name = "Test" THEN "tp_read" ELSE "new"
    /\ exit' = Running
    /\ executed' = <<>>
    /\ project' = NoProject
    /\ tp' = NoTp
    /\ obs' = NoObs
    /\ hist' = [hist EXCEPT !.prev =
                   IF entry = "test"
                   THEN (IF obs.returned = Some("Ok")
                         THEN Some([elf |-> cmd.elf, binaries |-> project.binaries,
                                    files |-> dirFiles])
                         ELSE None)
                   ELSE @]
    /\ UNCHANGED <<baseFiles, userFile, dirFiles>>

\* between two invocations the user removes .bare-test.toml
RemoveUserFile ==
    /\ pc = "exited"
    /\ run < MaxRuns
    /\ Exists(userFile)
    /\ userFile' = Absent
    /\ hist' = [hist EXCEPT !.selected = None]
    /\ UNCHANGED <<run, entry, pc, exit, cmd, executed, project, baseFiles,
                   dirFiles, tp, obs>>

Next ==
    \/ ProjectNew
    \/ MainBuild
    \/ MainQemu
    \/ MainUboot
    \/ MainReturn
    \/ TPRead
    \/ TPCopy
    \/ TPStrip
    \/ TPTestConfig
    \/ TPUboot
    \/ TPManifest
    \/ EmulatorLaunch
    \/ NewRun
    \/ RemoveUserFile

Spec == Init /\ [][Next]_vars

(***************************************************************************)
(* Arch::from_target on its own: the target triple is the input, the       *)
(* result is what the call returns.                                        *)
(***************************************************************************)
InitArch ==
    /\ run = 1
    /\ entry = "from_target"
    /\ pc = "call"
    /\ exit = Running
    /\ \E t \in Targets : cmd = [name |-> "from_target", target |-> t]
    /\ executed = <<>>
    /\ project = NoProject
    /\ baseFiles = [p \in ConfigPaths |-> Absent]
    /\ userFile = Absent
    /\ dirFiles = {}
    /\ tp = NoTp
    /\ obs = [result |-> None]
    /\ hist = NoHist

FromTargetCall ==
    /\ pc = "call"
    /\ obs' = [result |-> Some(from_target(cmd.target))]
    /\ pc' = "resolved"
    /\ UNCHANGED <<run, entry, exit, cmd, executed, project, baseFiles, userFile,
                   dirFiles, tp, hist>>

NextArch == FromTargetCall

SpecArch == InitArch /\ [][NextArch]_vars

(***************************************************************************)
(* Properties.                                                             *)
(***************************************************************************)
StepNames(steps) == [i \in 1..Len(steps) |-> steps[i].step]

Launched == \E i \in 1..Len(executed) : executed[i].step = "EmulatorLaunch"

Committed == obs.returned = Some("Ok")

\* C1: the pipeline is fail-fast.  Once a step has failed the process has
\* ended with a non-zero exit code and the failed step is the last one that
\* was started; when the strip/convert tool of CargoTestPrepare fails,
\* EmulatorLaunch is never started.
C1_FailFast ==
    /\ obs.stepFailed # 0 =>
          /\ pc = "exited"
          /\ exit \notin {0, Running}
          /\ Len(executed) = obs.stepFailed
    /\ "strip" \in obs.failed =>
          /\ obs.stepFailed = 1
          /\ ~Launched

\* the strip/convert tool has failed and the process has ended
C1_Witness ==
    /\ "strip" \in obs.failed
    /\ pc = "exited"
    /\ exit = 101
    /\ StepNames(executed) = <<"CargoTestPrepare">>

\* the steps the specification composes for a command
ComposedSteps(name) ==
    CASE name = "Build" -> <<"Compile">>
      [] name = "Qemu" -> <<"Compile", "EmulatorLaunch">>
      [] name = "Uboot" -> <<"Compile", "BootloaderStage">>

\* C2: the steps executed are determined by the command: build runs
\* [Compile], qemu runs [Compile, EmulatorLaunch] with the debug profile
\* exactly when --debug is given, uboot runs [Compile, BootloaderStage]; a
\* run that ends without a failure has run all of them, in this order.
C2_StepsByCommand ==
    (entry = "main" /\ pc = "exited" /\ exit = 0) =>
        /\ StepNames(executed) = ComposedSteps(cmd.name)
        /\ executed[1].debug = cmd.debug

\* the qemu section the precedence chain of the specification yields
EmulatorName ==
    [a \in Arch |-> CASE a = "Aarch64" -> "qemu-system-aarch64"
                      [] a = "Riscv64" -> "qemu-system-riscv64"
                      [] a = "X86_64" -> "qemu-system-x86_64"]

ByPrecedence(arch, testFile, manifest) ==
    IF /\ manifest.doc.test_qemu.kind = "Some"
       /\ EmulatorName[arch] \in DOMAIN manifest.doc.test_qemu.value
    THEN manifest.doc.test_qemu.value[EmulatorName[arch]]
    ELSE IF testFile.kind = "doc" /\ testFile.doc.qemu.kind = "Some"
    THEN testFile.doc.qemu.value
    ELSE qemu_new_default(arch)

\* C3: the qemu section CargoTestPrepare commits is the manifest entry keyed
\* by the emulator binary name of the architecture if there is one, else the
\* qemu section of the test-scope file if there is one, else the default
\* section; it is that section as a whole, with no field of a section of
\* lower precedence.
C3_QemuPrecedence ==
    Committed =>
        project.config.value.qemu =
            ByPrecedence(project.arch.value, obs.testFile.value, obs.manifest.value)

\* the test-scope file sets machine "none" and extra arguments, the manifest
\* entry sets machine "q35" and no extra arguments: the result is the entry
C3_Witness ==
    /\ Committed
    /\ obs.testFile = Some(Doc([qemu |-> Some(QNone)]))
    /\ project.config.value.qemu = Q35

\* C4: after a sub-step of CargoTestPrepare has failed the step does not
\* report success and commits neither a configuration nor an artifact pair.
C4_SubStepFailureAborts ==
    obs.failed # {} =>
        /\ ~Committed
        /\ project.config = None
        /\ project.binaries = None

\* C5: Project::new writes the base configuration file only when it is not
\* there, and then writes the configuration it synthesized; with the file
\* there it writes nothing and loads the configuration that was persisted.
C5_BasePersistence ==
    (entry = "main" /\ pc # "new") =>
        LET config_path == config_path_of(cmd.config)
        IN
        /\ obs.existedBase => ~obs.wroteBase
        /\ (~obs.existedBase /\ obs.loaded # None) =>
              /\ obs.wroteBase
              /\ obs.loaded = obs.synthesized
              /\ baseFiles[config_path] = Doc(config_to_string(obs.synthesized.value))
        /\ (obs.existedBase /\ hist.persisted[config_path] # None /\ obs.loaded # None) =>
              obs.loaded = hist.persisted[config_path]
        /\ (hist.persisted[config_path] # None /\ pc = "match") =>
              project.config = hist.persisted[config_path]

\* a later invocation has loaded the configuration an earlier one persisted
C5_Witness ==
    /\ entry = "main"
    /\ run > 1
    /\ pc = "match"
    /\ obs.existedBase
    /\ ~obs.wroteBase
    /\ hist.persisted[config_path_of(cmd.config)] # None
    /\ obs.loaded = hist.persisted[config_path_of(cmd.config)]
    /\ obs.loaded.value.machine = None

\* C6: CargoTestPrepare prompts for the bootloader configuration only when
\* bootloader staging is required and .bare-test.toml is absent, and persists
\* the selection; while the file stays no later run prompts and the uboot
\* section is the persisted selection; without bootloader staging there is
\* no prompt, no write and no uboot section.
C6_PromptOnce ==
    entry = "test" =>
        /\ obs.prompted # None => (cmd.uboot /\ ~obs.userExisted)
        /\ obs.wroteUser => obs.prompted # None
        /\ (obs.wroteUser /\ hist.selected # None) =>
              /\ hist.selected = obs.prompted
              /\ userFile = Doc(uboot_to_string(hist.selected.value))
        /\ (hist.selected # None /\ ~obs.wroteUser) =>
              /\ obs.prompted = None
              /\ (cmd.uboot /\ Committed) => project.config.value.uboot = hist.selected
        /\ ~cmd.uboot =>
              /\ obs.prompted = None
              /\ ~obs.wroteUser
              /\ Committed => project.config.value.uboot = None

\* a later run with bootloader staging has taken the persisted selection
C6_Witness ==
    /\ entry = "test"
    /\ run > 1
    /\ cmd.uboot
    /\ Committed
    /\ obs.userExisted
    /\ obs.prompted = None
    /\ hist.selected # None
    /\ project.config.value.uboot = hist.selected
    /\ hist.selected.value.dtb = None

\* C7: two runs of CargoTestPrepare against the same image commit the same
\* (elf_path, bin_path), both in the directory of the image, and leave the
\* same set of files.
C7_ArtifactIdempotence ==
    Committed =>
        /\ project.binaries.value[1].dir = cmd.elf.dir
        /\ project.binaries.value[2].dir = cmd.elf.dir
        /\ (hist.prev # None /\ hist.prev.value.elf = cmd.elf) =>
              /\ project.binaries = hist.prev.value.binaries
              /\ dirFiles = hist.prev.value.files

\* str::contains, stated over the positions of the string
HasSub(s, pat) ==
    \E i \in 1..Len(s) :
        /\ i + Len(pat) - 1 <= Len(s)
        /\ \A j \in 1..Len(pat) : s[i + j - 1] = pat[j]

\* C8: a target containing "aarch64" resolves to Aarch64; otherwise one
\* containing "riscv64" resolves to Riscv64; otherwise one containing
\* "x86_64" resolves to X86_64; every other target fails with an
\* unsupported-target error that carries the target.
C8_TargetResolution ==
    pc = "resolved" =>
        LET t == cmd.target
            r == obs.result.value
        IN
        IF HasSub(t, S_aarch64) THEN r = Ok("Aarch64")
        ELSE IF HasSub(t, S_riscv64) THEN r = Ok("Riscv64")
        ELSE IF HasSub(t, S_x86_64) THEN r = Ok("X86_64")
        ELSE /\ r.kind = "Err"
             /\ r.error = "Unsupportedtarget"
             /\ r.value = t

\* a target that contains both "riscv64" and "aarch64" has been resolved
C8_Witness ==
    /\ pc = "resolved"
    /\ HasSub(cmd.target, S_riscv64)
    /\ HasSub(cmd.target, S_aarch64)
    /\ obs.result = Some(Ok("Aarch64"))

\* C9: the header tags Aarch64, Riscv64 and X86_64 resolve to the Arch of
\* the same name, and every other tag gives the unsupported-target error
\* value that target resolution gives.
C9_HeaderResolution ==
    (entry = "test" /\ obs.archRes # None) =>
        LET r == obs.archRes.value
        IN
        IF obs.tag.value \in Arch THEN r = Ok(obs.tag.value)
        ELSE /\ r.kind = "Err"
             /\ r.error = "Unsupportedtarget"

\* C10: qemu_arch gives each Arch the emulator binary name of the table, no
\* two Arch share a name, and the name is the key looked up in the manifest
\* table.
C10_EmulatorName ==
    /\ \A a \in Arch : qemu_arch(a) = EmulatorName[a]
    /\ \A a, b \in Arch : qemu_arch(a) = qemu_arch(b) => a = b
    /\ (entry = "test" /\ obs.key # None) =>
          obs.key = Some(EmulatorName[project.arch.value])

\* the table of the manifest has been looked up for an X86_64 image and the
\* entry found
C10_Witness ==
    /\ entry = "test"
    /\ Committed
    /\ project.arch = Some("X86_64")
    /\ obs.key = Some("qemu-system-x86_64")
    /\ project.config.value.qemu = QArgs

====
